---- MODULE Spec2Model ----
(***************************************************************************)
(* Model of the two scripts of network_of_stickers:                        *)
(*   src/network.py       sticker-location map and interactive map         *)
(*   src/syntax/visual.py topic frequencies, pie/bar/word cloud, heatmap   *)
(*                                                                         *)
(* A Python str is a sequence of one-character strings, so that split,     *)
(* strip, float and the f-string of the code are computed, not assumed.    *)
(* A spreadsheet cell is a str, or one of the two non-str cells NaN (an    *)
(* empty cell) and NumCell (a numeric cell).                               *)
(***************************************************************************)
EXTENDS Integers, Sequences, FiniteSets, TLC

VARIABLES
    pc,             \* position of the running script
    env,            \* what the run finds: libraries, render failures
    sticker_xlsx,   \* the sticker table on disk
    general_xlsx,   \* the general table on disk
    coord_str,      \* argument of a stand-alone extract_coordinates call
    coord_out,      \* its return value
    unique_points,  \* create_simple_map: dict name -> (lat, lon)
    sticker_points, \* create_expanded_map: dict name -> (lat, lon)
    org_points,     \* create_expanded_map: dict org_key -> record
    connections,    \* create_expanded_map: list of connections
    topic_df,       \* analyze_topic_frequencies: rows (Topic, Count)
    pie_df,         \* create_pie_chart: rows handed to plt.pie
    top_orgs,       \* analyze_organization_topics: selected organizations
    pivot_table,    \* analyze_organization_topics: the matrix
    computed,       \* aggregated tables computed so far
    attempted,      \* rendering steps entered so far
    outputs,        \* output files written so far
    messages        \* messages printed for skipped visualizations

vars == <<pc, env, sticker_xlsx, general_xlsx, coord_str, coord_out,
          unique_points, sticker_points, org_points, connections,
          topic_df, pie_df, top_orgs, pivot_table,
          computed, attempted, outputs, messages>>

----------------------------------------------------------------------------
(* Bounds of the model.                                                    *)

\* longest coordinate text enumerated for the stand-alone parser
MaxCoordLen == 5
\* most sticker rows when the sticker table is the varied input
MaxStickerRows == 3
\* most general rows when the general table is the varied input
MaxOrgRows == 2
\* most rows of either table when both are varied
MaxLinkRows == 2
\* most general rows when the topic labels are the varied input
MaxTopicRows == 8
\* most general rows when raw, uncleaned cells are the varied input
MaxRawRows == 2
\* most rows added to the nine single-row organizations of the top-10 input
MaxTailRows == 3

----------------------------------------------------------------------------
(* Python values.                                                          *)

\* an empty spreadsheet cell (float('nan') in pandas)
NaN == <<"<NaN>">>
\* a numeric spreadsheet cell holding 1.0 (a float, not a str)
NumCell == <<"<1.0>">>

\* isinstance(x, str)
IsStr(x) == x \notin {NaN, NumCell}
\* pd.notna(x)
NotNa(x) == x /= NaN

\* the literal 'N/A'
NA == <<"N", "/", "A">>
\* the literal "Unknown"
Unknown == <<"U", "n", "k", "n", "o", "w", "n">>

Whitespace == {" "}
Digits == {"0", "1", "2", "3", "4", "5", "6", "7", "8", "9"}

\* str.lower on one character, for the letters float() reads
Lower(c) ==
    CASE c = "N" -> "n" [] c = "A" -> "a" [] c = "I" -> "i" [] c = "F" -> "f"
      [] c = "T" -> "t" [] c = "Y" -> "y" [] OTHER -> c

\* c in s
Contains(s, c) == \E i \in 1..Len(s) : s[i] = c

RECURSIVE LStrip(_)
LStrip(s) == IF s /= <<>> /\ Head(s) \in Whitespace THEN LStrip(Tail(s)) ELSE s

RECURSIVE RStrip(_)
RStrip(s) ==
    IF s /= <<>> /\ s[Len(s)] \in Whitespace
    THEN RStrip(SubSeq(s, 1, Len(s) - 1)) ELSE s

\* str.strip()
Strip(s) == RStrip(LStrip(s))

\* str.split(sep): the parts between the separators, empty parts kept
RECURSIVE Split(_, _)
Split(s, sep) ==
    IF ~Contains(s, sep) THEN <<s>>
    ELSE LET i == CHOOSE k \in 1..Len(s) :
                      s[k] = sep /\ \A j \in 1..(k - 1) : s[j] /= sep
         IN  <<SubSeq(s, 1, i - 1)>> \o Split(SubSeq(s, i + 1, Len(s)), sep)

----------------------------------------------------------------------------
(* float(): a Python float is finite (the rational n/d, d a power of ten   *)
(* in lowest terms), nan, or +-inf; None and a raised ValueError share the *)
(* record shape so that values compare.                                    *)

None == [k |-> "none", n |-> 0, d |-> 1]
ValueError == [k |-> "error", n |-> 0, d |-> 1]
FloatNan == [k |-> "nan", n |-> 0, d |-> 1]
FloatInf(sign) == [k |-> "inf", n |-> sign, d |-> 1]

RECURSIVE Reduce(_, _)
Reduce(n, d) ==
    IF d > 1 /\ n % 10 = 0 THEN Reduce(n \div 10, d \div 10)
    ELSE [k |-> "fin", n |-> n, d |-> d]

DigitVal(c) ==
    CASE c = "0" -> 0 [] c = "1" -> 1 [] c = "2" -> 2 [] c = "3" -> 3
      [] c = "4" -> 4 [] c = "5" -> 5 [] c = "6" -> 6 [] c = "7" -> 7
      [] c = "8" -> 8 [] c = "9" -> 9

RECURSIVE DigitsToNat(_)
DigitsToNat(s) ==
    IF s = <<>> THEN 0
    ELSE 10 * DigitsToNat(SubSeq(s, 1, Len(s) - 1)) + DigitVal(s[Len(s)])

RECURSIVE Pow10(_)
Pow10(e) == IF e = 0 THEN 1 ELSE 10 * Pow10(e - 1)

\* the unsigned decimal forms float() reads: digits, digits. , .digits,
\* digits.digits (exponents and digit-group underscores are outside the
\* alphabet the model enumerates)
ParseDecimal(s, sign) ==
    LET parts == Split(s, ".")
        ip == parts[1]
        fp == IF Len(parts) = 2 THEN parts[2] ELSE <<>>
        AllDigits(t) == \A i \in 1..Len(t) : t[i] \in Digits
    IN  IF Len(parts) > 2 \/ ~AllDigits(ip) \/ ~AllDigits(fp)
           \/ Len(ip) + Len(fp) = 0
        THEN ValueError
        ELSE Reduce(sign * DigitsToNat(ip \o fp), Pow10(Len(fp)))

\* float(s) for a str s
PyFloat(s) ==
    LET t == Strip(s)
        signed == t /= <<>> /\ Head(t) \in {"-", "+"}
        sign == IF signed /\ Head(t) = "-" THEN -1 ELSE 1
        body == IF signed THEN Tail(t) ELSE t
        low == [i \in 1..Len(body) |-> Lower(body[i])]
    IN  IF low = <<"n", "a", "n">> THEN FloatNan
        ELSE IF low \in {<<"i", "n", "f">>,
                         <<"i", "n", "f", "i", "n", "i", "t", "y">>}
        THEN FloatInf(sign)
        ELSE ParseDecimal(body, sign)

NoCoord == <<None, None>>

\* network.py extract_coordinates
extract_coordinates(c) ==
    IF IsStr(c) /\ c /= NA /\ Contains(c, ",")
    THEN LET parts == Split(c, ",")
         IN  IF Len(parts) >= 2
             THEN LET lat == PyFloat(Strip(parts[1]))
                  IN  IF lat = ValueError THEN NoCoord
                      ELSE LET lon == PyFloat(Strip(parts[2]))
                           IN  IF lon = ValueError THEN NoCoord
                               ELSE <<lat, lon>>
             ELSE NoCoord
    ELSE NoCoord

----------------------------------------------------------------------------
(* dict: insertion-ordered, a sequence of <<key, value>> with unique keys. *)

DictHas(d, k) == \E i \in 1..Len(d) : d[i][1] = k
DictGet(d, k) == d[CHOOSE i \in 1..Len(d) : d[i][1] = k][2]
\* d[k] = v: a present key keeps its place and takes the new value
DictSet(d, k, v) ==
    IF DictHas(d, k)
    THEN [i \in 1..Len(d) |-> IF d[i][1] = k THEN <<k, v>> ELSE d[i]]
    ELSE Append(d, <<k, v>>)
DictKeys(d) == [i \in 1..Len(d) |-> d[i][1]]

\* str(x) and the f-string form of a cell
PyStr(x) ==
    CASE x = NaN -> <<"n", "a", "n">>
      [] x = NumCell -> <<"1", ".", "0">>
      [] OTHER -> x

\* a == b on cells: nan equals nothing, itself included
PyEq(a, b) == a /= NaN /\ b /= NaN /\ a = b

----------------------------------------------------------------------------
(* network.py: the tables.                                                 *)

StickerCols == {"sticker_ID", "sticker_location", "sticker_location_coordinates"}
GeneralCols == {"organization", "sticker_id", "topic",
                "organization_location_coordinates"}

\* DataFrame.drop_duplicates(subset=['sticker_location']): the first row of
\* each location value is kept (empty cells count as one value)
RECURSIVE DropDuplicatesFrom(_, _)
DropDuplicatesFrom(rows, i) ==
    IF i > Len(rows) THEN <<>>
    ELSE (IF \E j \in 1..(i - 1) :
                 rows[j].sticker_location = rows[i].sticker_location
          THEN <<>> ELSE <<rows[i]>>) \o DropDuplicatesFrom(rows, i + 1)

\* the loop run over every row, no drop_duplicates
KeepDuplicates(rows) == rows

DropDuplicates(rows) == DropDuplicatesFrom(rows, 1)

\* the loop body of lines 26-32 and 129-135 over the rows it is given
RECURSIVE PointsLoop(_, _)
PointsLoop(rows, points) ==
    IF rows = <<>> THEN points
    ELSE LET row == Head(rows)
             location == row.sticker_location
             coordinates == row.sticker_location_coordinates
             latlon == extract_coordinates(coordinates)
         IN  PointsLoop(Tail(rows),
                 IF NotNa(location) /\ NotNa(coordinates)
                    /\ latlon[1] /= None /\ latlon[2] /= None
                 THEN DictSet(points, location, latlon)
                 ELSE points)

\* unique_points / sticker_points as the code builds them
LocationPoints(rows) == PointsLoop(DropDuplicates(rows), <<>>)

\* the organization record of one general row (lines 144-152)
OrgRecord(row, latlon) ==
    LET org_name == IF NotNa(row.organization)
                    THEN PyStr(row.organization) ELSE Unknown
    IN  [coords |-> latlon,
         org_name |-> org_name,
         sticker_id |-> row.sticker_id,
         topic |-> IF NotNa(row.topic) THEN PyStr(row.topic) ELSE Unknown]

\* org_key = f"{org_name}_{sticker_id}"
OrgKey(org_name, sticker_id) == org_name \o <<"_">> \o PyStr(sticker_id)

\* whether a general row passes the guards of lines 141-143
OrgRowValid(row) ==
    LET coords == row.organization_location_coordinates
        latlon == extract_coordinates(coords)
    IN  NotNa(coords) /\ coords /= NA
        /\ latlon[1] /= None /\ latlon[2] /= None

\* the loop of lines 139-152
RECURSIVE OrgLoop(_, _)
OrgLoop(rows, points) ==
    IF rows = <<>> THEN points
    ELSE LET row == Head(rows)
             latlon == extract_coordinates(row.organization_location_coordinates)
             rec == OrgRecord(row, latlon)
         IN  OrgLoop(Tail(rows),
                 IF OrgRowValid(row)
                 THEN DictSet(points, OrgKey(rec.org_name, rec.sticker_id), rec)
                 ELSE points)

OrgPoints(rows) == OrgLoop(rows, <<>>)

\* the inner loop leaving at its first match
RECURSIVE MatchFirst(_, _, _)
MatchFirst(sticker_row, orgs, points) ==
    IF orgs = <<>> THEN <<>>
    ELSE IF PyEq(Head(orgs)[2].sticker_id, sticker_row.sticker_ID)
            /\ DictHas(points, sticker_row.sticker_location)
    THEN <<[sticker_loc |-> sticker_row.sticker_location,
            sticker_coords |-> DictGet(points, sticker_row.sticker_location),
            org_key |-> Head(orgs)[1],
            org_coords |-> Head(orgs)[2].coords,
            org_name |-> Head(orgs)[2].org_name,
            topic |-> Head(orgs)[2].topic]>>
    ELSE MatchFirst(sticker_row, Tail(orgs), points)

\* the inner loop of lines 161-171 for one sticker row
RECURSIVE MatchLoop(_, _, _)
MatchLoop(sticker_row, orgs, points) ==
    IF orgs = <<>> THEN <<>>
    ELSE LET org_key == Head(orgs)[1]
             org_data == Head(orgs)[2]
             sticker_loc == sticker_row.sticker_location
         IN  (IF PyEq(org_data.sticker_id, sticker_row.sticker_ID)
                 /\ DictHas(points, sticker_loc)
              THEN <<[sticker_loc |-> sticker_loc,
                      sticker_coords |-> DictGet(points, sticker_loc),
                      org_key |-> org_key,
                      org_coords |-> org_data.coords,
                      org_name |-> org_data.org_name,
                      topic |-> org_data.topic]>>
              ELSE <<>>) \o MatchLoop(sticker_row, Tail(orgs), points)

\* the two loops nested the other way round: organizations outside
RECURSIVE ConnectionsByOrg(_, _, _)
ConnectionsByOrg(rows, orgs, points) ==
    IF orgs = <<>> THEN <<>>
    ELSE LET RECURSIVE Inner(_)
             Inner(rs) ==
                 IF rs = <<>> THEN <<>>
                 ELSE MatchFirst(Head(rs), <<Head(orgs)>>, points)
                      \o Inner(Tail(rs))
         IN  Inner(rows) \o ConnectionsByOrg(rows, Tail(orgs), points)

\* the loop of lines 155-171
RECURSIVE Connections(_, _, _)
Connections(rows, orgs, points) ==
    IF rows = <<>> THEN <<>>
    ELSE MatchLoop(Head(rows), orgs, points)
         \o Connections(Tail(rows), orgs, points)

----------------------------------------------------------------------------
(* visual.py: topic frequencies.                                           *)

\* df[col].astype(str).str.strip() on one cell
CleanCell(x) == Strip(PyStr(x))

\* lines 14-17: the topic column as it reaches Counter
RECURSIVE CleanTopics(_)
CleanTopics(rows) ==
    IF rows = <<>> THEN <<>>
    ELSE LET t == CleanCell(Head(rows).topic)
         IN  (IF t /= NA /\ t /= <<"n", "a", "n">> THEN <<t>> ELSE <<>>)
             \o CleanTopics(Tail(rows))

\* collections.Counter(seq): keys in first-seen order
RECURSIVE CounterLoop(_, _)
CounterLoop(seq, d) ==
    IF seq = <<>> THEN d
    ELSE CounterLoop(Tail(seq),
             DictSet(d, Head(seq),
                 IF DictHas(d, Head(seq)) THEN DictGet(d, Head(seq)) + 1 ELSE 1))

Counter(seq) == CounterLoop(seq, <<>>)

\* lines 23-26: the frame built from the counter, one row per key
TopicFrame(counter) ==
    [i \in 1..Len(counter) |-> [Topic |-> counter[i][1], Count |-> counter[i][2]]]

\* line 29: sort_values('Count', ascending=False) with the default
\* kind='quicksort', which is not a stable sort: every descending order of
\* the rows is a possible result, rows of equal Count in any order
SortValuesDescending(frame) ==
    {s \in {[i \in 1..Len(frame) |-> frame[p[i]]] :
                p \in Permutations(1..Len(frame))} :
        \A i \in 1..(Len(s) - 1) : s[i].Count >= s[i + 1].Count}

\* line 73
threshold == 3

RECURSIVE SumCounts(_)
SumCounts(frame) ==
    IF frame = <<>> THEN 0 ELSE Head(frame).Count + SumCounts(Tail(frame))

\* create_pie_chart grouping Count <= threshold instead of Count < threshold
PieFrameInclusive(frame) ==
    LET Low(r) == r.Count <= threshold
        High(r) == r.Count > threshold
        to_group == SelectSeq(frame, Low)
    IN  IF to_group /= <<>>
        THEN Append(SelectSeq(frame, High),
                    [Topic |-> <<"O", "t", "h", "e", "r">>,
                     Count |-> SumCounts(to_group)])
        ELSE frame

\* lines 76-90 of create_pie_chart: the rows handed to plt.pie
PieFrame(frame) ==
    LET Low(r) == r.Count < threshold
        High(r) == r.Count >= threshold
        to_group == SelectSeq(frame, Low)
    IN  IF to_group /= <<>>
        THEN Append(SelectSeq(frame, High),
                    [Topic |-> <<"O", "t", "h", "e", "r">>,
                     Count |-> SumCounts(to_group)])
        ELSE frame

----------------------------------------------------------------------------
(* visual.py: organization-topic matrix.                                   *)

\* code points of the characters the tables of the model use, ascending
Ascii == <<" ", "/", "0", "1", "2", "A", "B", "N", "O", "U", "_",
           "a", "b", "c", "d", "e", "f", "g", "h", "i", "j", "k", "l",
           "n", "o", "r", "t", "u", "w", "x", "y", "z">>
Ord(c) == CHOOSE i \in 1..Len(Ascii) : Ascii[i] = c

\* s < t on str
RECURSIVE StrLess(_, _)
StrLess(s, t) ==
    IF t = <<>> THEN FALSE
    ELSE IF s = <<>> THEN TRUE
    ELSE IF Head(s) /= Head(t) THEN Ord(Head(s)) < Ord(Head(t))
    ELSE StrLess(Tail(s), Tail(t))

\* the labels of a set in sorted order (groupby and pivot_table sort keys)
RECURSIVE SortedLabels(_)
SortedLabels(S) ==
    IF S = {} THEN <<>>
    ELSE LET m == CHOOSE x \in S : \A y \in S \ {x} : StrLess(x, y)
         IN  <<m>> \o SortedLabels(S \ {m})

\* lines 169-174: the (organization, topic) pairs that are counted
RECURSIVE CleanPairs(_)
CleanPairs(rows) ==
    IF rows = <<>> THEN <<>>
    ELSE LET o == Head(rows).organization
             t == Head(rows).topic
         IN  (IF NotNa(o) /\ o /= NA /\ NotNa(t) /\ t /= NA
              THEN <<[organization |-> CleanCell(o), topic |-> CleanCell(t)]>>
              ELSE <<>>) \o CleanPairs(Tail(rows))

Occurrences(seq, x) == Cardinality({i \in 1..Len(seq) : seq[i] = x})
Range(seq) == {seq[i] : i \in 1..Len(seq)}

\* line 180
TopN == 10

\* line 180: value_counts().nlargest(10).index: value_counts sorts the
\* organizations by count with the same unstable sort, nlargest keeps the
\* first 10 of that order; the list is only tested for membership (line
\* 183), so it is the set of its elements: any min(10, n) organizations
\* none of which has fewer pairs than one left out
TopSelections(pairs) ==
    LET orgs == {r.organization : r \in Range(pairs)}
        names == [i \in 1..Len(pairs) |-> pairs[i].organization]
        k == IF Cardinality(orgs) < TopN THEN Cardinality(orgs) ELSE TopN
    IN  {S \in SUBSET orgs :
            /\ Cardinality(S) = k
            /\ \A a \in S : \A b \in orgs \ S :
                   Occurrences(names, a) >= Occurrences(names, b)}

\* line 177: groupby(['organization', 'topic']).size(): one row per pair
\* that occurs, with its number of occurrences
GroupBySize(pairs) ==
    {[organization |-> r.organization, topic |-> r.topic,
      count |-> Occurrences(pairs, r)] : r \in Range(pairs)}

\* lines 183-191: isin filter, then pivot_table with fill_value=0 (rows and
\* columns in sorted label order)
PivotTable(org_topic_counts, top) ==
    LET filtered_counts == {r \in org_topic_counts : r.organization \in top}
        index == SortedLabels({r.organization : r \in filtered_counts})
        columns == SortedLabels({r.topic : r \in filtered_counts})
        Cell(o, t) ==
            LET hit == {r \in filtered_counts :
                           r.organization = o /\ r.topic = t}
            IN  IF hit = {} THEN 0 ELSE (CHOOSE r \in hit : TRUE).count
    IN  [index |-> index,
         columns |-> columns,
         values |-> [c \in Range(index) \X Range(columns) |-> Cell(c[1], c[2])]]

----------------------------------------------------------------------------
(* The runs. env.script is the script started; env.contextily, env.folium  *)
(* and env.wordcloud say whether the optional library imports; env.raises  *)
(* holds the rendering steps whose library call raises (an unwritable      *)
(* output path, a failed tile download).                                   *)

RenderSteps == {"static_map", "interactive_map", "bar", "pie", "wordcloud",
                "heatmap"}

\* a script dies with an uncaught exception
Abort == pc' = "aborted"

\* ---- extract_coordinates called on its own
ExtractCoordinates ==
    /\ pc = "coord"
    /\ coord_out' = extract_coordinates(coord_str)
    /\ pc' = "coord_done"
    /\ UNCHANGED <<env, sticker_xlsx, general_xlsx, coord_str, unique_points,
                   sticker_points, org_points, connections, topic_df, pie_df,
                   top_orgs, pivot_table, computed, attempted, outputs,
                   messages>>

\* ---- network.py

\* KeyError of the loop of lines 26-32 / 129-135
PointsKeyError(table) ==
    \/ "sticker_location" \notin table.cols
    \/ /\ table.rows /= <<>>
       /\ "sticker_location_coordinates" \notin table.cols

\* KeyError of the loop of lines 139-152
OrgKeyError(table) ==
    \/ /\ table.rows /= <<>>
       /\ "organization_location_coordinates" \notin table.cols
    \/ /\ \E i \in 1..Len(table.rows) : OrgRowValid(table.rows[i])
       /\ ~({"sticker_id", "organization", "topic"} \subseteq table.cols)

\* KeyError of the loop of lines 156-171
ConnectionsKeyError(table) ==
    table.rows /= <<>> /\ "sticker_ID" \notin table.cols

\* create_simple_map, line 22
SimpleLoad ==
    /\ pc = "simple_load"
    /\ IF sticker_xlsx.present THEN pc' = "simple_points" ELSE Abort
    /\ UNCHANGED <<env, sticker_xlsx, general_xlsx, coord_str, coord_out,
                   unique_points, sticker_points, org_points, connections,
                   topic_df, pie_df, top_orgs, pivot_table, computed,
                   attempted, outputs, messages>>

\* create_simple_map, lines 25-32
SimplePoints ==
    /\ pc = "simple_points"
    /\ IF PointsKeyError(sticker_xlsx)
       THEN Abort /\ UNCHANGED <<unique_points, computed>>
       ELSE /\ unique_points' = LocationPoints(sticker_xlsx.rows)
            /\ computed' = computed \cup {"unique_points"}
            /\ pc' = "simple_render"
    /\ UNCHANGED <<env, sticker_xlsx, general_xlsx, coord_str, coord_out,
                   sticker_points, org_points, connections, topic_df, pie_df,
                   top_orgs, pivot_table, attempted, outputs, messages>>

\* create_simple_map, lines 34-113: the plot. With contextily the axis
\* limits take min() and max() of the coordinates, which raise on no points;
\* without it the except branch draws the plain plot
SimpleRender ==
    /\ pc = "simple_render"
    /\ attempted' = attempted \cup {"static_map"}
    /\ messages' = IF env.contextily THEN messages
                   ELSE messages \cup {"Contextily package not installed"}
    /\ IF \/ "static_map" \in env.raises
          \/ env.contextily /\ unique_points = <<>>
       THEN Abort /\ UNCHANGED outputs
       ELSE /\ outputs' = outputs \cup {"sticker_locations_map.png"}
            /\ pc' = "expanded_import"
    /\ UNCHANGED <<env, sticker_xlsx, general_xlsx, coord_str, coord_out,
                   unique_points, sticker_points, org_points, connections,
                   topic_df, pie_df, top_orgs, pivot_table, computed>>

\* create_expanded_map, lines 119-121 and 223-225
ExpandedImport ==
    /\ pc = "expanded_import"
    /\ attempted' = attempted \cup {"interactive_map"}
    /\ IF env.folium
       THEN pc' = "expanded_load" /\ UNCHANGED messages
       ELSE /\ messages' = messages \cup {"Error creating interactive map"}
            /\ pc' = "done"
    /\ UNCHANGED <<env, sticker_xlsx, general_xlsx, coord_str, coord_out,
                   unique_points, sticker_points, org_points, connections,
                   topic_df, pie_df, top_orgs, pivot_table, computed, outputs>>

\* create_expanded_map, lines 124-125
ExpandedLoad ==
    /\ pc = "expanded_load"
    /\ IF sticker_xlsx.present /\ general_xlsx.present
       THEN pc' = "expanded_points" ELSE Abort
    /\ UNCHANGED <<env, sticker_xlsx, general_xlsx, coord_str, coord_out,
                   unique_points, sticker_points, org_points, connections,
                   topic_df, pie_df, top_orgs, pivot_table, computed,
                   attempted, outputs, messages>>

\* create_expanded_map, lines 128-135
ExpandedPoints ==
    /\ pc = "expanded_points"
    /\ IF PointsKeyError(sticker_xlsx)
       THEN Abort /\ UNCHANGED <<sticker_points, computed>>
       ELSE /\ sticker_points' = LocationPoints(sticker_xlsx.rows)
            /\ computed' = computed \cup {"sticker_points"}
            /\ pc' = "expanded_orgs"
    /\ UNCHANGED <<env, sticker_xlsx, general_xlsx, coord_str, coord_out,
                   unique_points, org_points, connections, topic_df, pie_df,
                   top_orgs, pivot_table, attempted, outputs, messages>>

\* create_expanded_map, lines 138-152
ExpandedOrgs ==
    /\ pc = "expanded_orgs"
    /\ IF OrgKeyError(general_xlsx)
       THEN Abort /\ UNCHANGED <<org_points, computed>>
       ELSE /\ org_points' = OrgPoints(general_xlsx.rows)
            /\ computed' = computed \cup {"org_points"}
            /\ pc' = "expanded_connections"
    /\ UNCHANGED <<env, sticker_xlsx, general_xlsx, coord_str, coord_out,
                   unique_points, sticker_points, connections, topic_df,
                   pie_df, top_orgs, pivot_table, attempted, outputs, messages>>

\* create_expanded_map, lines 155-171
ExpandedConnections ==
    /\ pc = "expanded_connections"
    /\ IF ConnectionsKeyError(sticker_xlsx)
       THEN Abort /\ UNCHANGED <<connections, computed>>
       ELSE /\ connections' = Connections(sticker_xlsx.rows, org_points,
                                          sticker_points)
            /\ computed' = computed \cup {"connections"}
            /\ pc' = "expanded_render"
    /\ UNCHANGED <<env, sticker_xlsx, general_xlsx, coord_str, coord_out,
                   unique_points, sticker_points, org_points, topic_df,
                   pie_df, top_orgs, pivot_table, attempted, outputs, messages>>

\* create_expanded_map, lines 174-221: the map centre divides by the number
\* of points (ZeroDivisionError on none), then folium draws and saves
ExpandedRender ==
    /\ pc = "expanded_render"
    /\ IF \/ sticker_points = <<>> /\ org_points = <<>>
          \/ "interactive_map" \in env.raises
       THEN Abort /\ UNCHANGED outputs
       ELSE /\ outputs' = outputs \cup {"expanded_network_map.html"}
            /\ pc' = "done"
    /\ UNCHANGED <<env, sticker_xlsx, general_xlsx, coord_str, coord_out,
                   unique_points, sticker_points, org_points, connections,
                   topic_df, pie_df, top_orgs, pivot_table, computed,
                   attempted, messages>>

NextNetwork ==
    \/ SimpleLoad \/ SimplePoints \/ SimpleRender
    \/ ExpandedImport \/ ExpandedLoad \/ ExpandedPoints \/ ExpandedOrgs
    \/ ExpandedConnections \/ ExpandedRender

\* ---- visual.py

\* analyze_topic_frequencies, lines 11-31
Topics ==
    /\ pc = "topics"
    /\ IF ~general_xlsx.present \/ "topic" \notin general_xlsx.cols
       THEN Abort /\ UNCHANGED <<topic_df, computed>>
       ELSE /\ topic_df' \in SortValuesDescending(
                   TopicFrame(Counter(CleanTopics(general_xlsx.rows))))
            /\ computed' = computed \cup {"topic_df"}
            /\ pc' = "bar"
    /\ UNCHANGED <<env, sticker_xlsx, general_xlsx, coord_str, coord_out,
                   unique_points, sticker_points, org_points, connections,
                   pie_df, top_orgs, pivot_table, attempted, outputs, messages>>

\* create_bar_chart, lines 35-68
BarChart ==
    /\ pc = "bar"
    /\ attempted' = attempted \cup {"bar"}
    /\ IF "bar" \in env.raises
       THEN Abort /\ UNCHANGED outputs
       ELSE outputs' = outputs \cup {"topic_bar_chart.png"} /\ pc' = "pie"
    /\ UNCHANGED <<env, sticker_xlsx, general_xlsx, coord_str, coord_out,
                   unique_points, sticker_points, org_points, connections,
                   topic_df, pie_df, top_orgs, pivot_table, computed, messages>>

\* create_pie_chart, lines 73-126
PieChart ==
    /\ pc = "pie"
    /\ pie_df' = PieFrame(topic_df)
    /\ attempted' = attempted \cup {"pie"}
    /\ IF "pie" \in env.raises
       THEN Abort /\ UNCHANGED outputs
       ELSE /\ outputs' = outputs \cup {"topic_pie_chart.png"}
            /\ pc' = "wordcloud"
    /\ UNCHANGED <<env, sticker_xlsx, general_xlsx, coord_str, coord_out,
                   unique_points, sticker_points, org_points, connections,
                   topic_df, top_orgs, pivot_table, computed, messages>>

\* create_wordcloud, lines 130-161
WordCloud ==
    /\ pc = "wordcloud"
    /\ attempted' = attempted \cup {"wordcloud"}
    /\ IF ~env.wordcloud
       THEN /\ messages' = messages \cup {"WordCloud package not installed"}
            /\ pc' = "org_topics"
            /\ UNCHANGED outputs
       ELSE /\ UNCHANGED messages
            /\ IF "wordcloud" \in env.raises
               THEN Abort /\ UNCHANGED outputs
               ELSE /\ outputs' = outputs \cup {"topic_wordcloud.png"}
                    /\ pc' = "org_topics"
    /\ UNCHANGED <<env, sticker_xlsx, general_xlsx, coord_str, coord_out,
                   unique_points, sticker_points, org_points, connections,
                   topic_df, pie_df, top_orgs, pivot_table, computed>>

\* analyze_organization_topics, lines 166-210
OrgTopics ==
    /\ pc = "org_topics"
    /\ IF \/ ~general_xlsx.present
          \/ ~({"organization", "topic"} \subseteq general_xlsx.cols)
       THEN Abort /\ UNCHANGED <<top_orgs, pivot_table, computed, attempted,
                                 outputs>>
       ELSE /\ top_orgs' \in TopSelections(CleanPairs(general_xlsx.rows))
            /\ pivot_table' = PivotTable(
                   GroupBySize(CleanPairs(general_xlsx.rows)), top_orgs')
            /\ computed' = computed \cup {"pivot_table"}
            /\ attempted' = attempted \cup {"heatmap"}
            /\ IF "heatmap" \in env.raises
               THEN Abort /\ UNCHANGED outputs
               ELSE /\ outputs' = outputs \cup {"organization_topic_heatmap.png"}
                    /\ pc' = "done"
    /\ UNCHANGED <<env, sticker_xlsx, general_xlsx, coord_str, coord_out,
                   unique_points, sticker_points, org_points, connections,
                   topic_df, pie_df, messages>>

NextVisual == Topics \/ BarChart \/ PieChart \/ WordCloud \/ OrgTopics

----------------------------------------------------------------------------
(* Initial states: the inputs a run can find.                              *)

\* sequences over S of length 0..n
SeqsUpTo(S, n) == UNION {[1..k -> S] : k \in 0..n}

EmptyPivot == [index |-> <<>>, columns |-> <<>>, values |-> <<>>]

\* nothing computed, rendered or printed yet
Fresh ==
    /\ coord_out = NoCoord
    /\ unique_points = <<>> /\ sticker_points = <<>>
    /\ org_points = <<>> /\ connections = <<>>
    /\ topic_df = <<>> /\ pie_df = <<>>
    /\ top_orgs = {} /\ pivot_table = EmptyPivot
    /\ computed = {} /\ attempted = {} /\ outputs = {} /\ messages = {}

Table(cols, rows) == [present |-> TRUE, cols |-> cols, rows |-> rows]
NoFile == [present |-> FALSE, cols |-> {}, rows |-> <<>>]

StickerRow(id, loc, coords) ==
    [sticker_ID |-> id, sticker_location |-> loc,
     sticker_location_coordinates |-> coords]
GeneralRow(org, id, topic, coords) ==
    [organization |-> org, sticker_id |-> id, topic |-> topic,
     organization_location_coordinates |-> coords]

\* every library present, no rendering call raises; contextily is the one
\* library left to vary
EnvOk(script, contextily) ==
    [script |-> script, contextily |-> contextily, folium |-> TRUE,
     wordcloud |-> TRUE, raises |-> {}]

\* ---- stand-alone parser inputs
CoordAlphabet == {"1", "0", ".", "-", " ", ",", "N", "A", "/"}
CoordInputs == SeqsUpTo(CoordAlphabet, MaxCoordLen) \cup {NaN, NumCell}

InitCoord ==
    /\ pc = "coord"
    /\ coord_str \in CoordInputs
    /\ env = EnvOk("coord", FALSE)
    /\ sticker_xlsx = NoFile /\ general_xlsx = NoFile
    /\ Fresh

SpecCoord == InitCoord /\ [][ExtractCoordinates]_vars

\* ---- network.py inputs: one table is varied richly while the other is a
\* ---- fixed row (the sticker table in SpecNetwork, the general table in
\* ---- SpecOrgs), or both are varied over fewer cell values (SpecNetwork)
StickerRowsRich ==
    {StickerRow(<<"1">>, loc, coords) :
        loc \in {<<"A">>, <<"B">>, NaN},
        coords \in {<<"1", ",", "1">>, <<"0", ",", "1">>, <<"1">>, NaN}}
GeneralRowsRich ==
    {GeneralRow(org, id, tc[1], tc[2]) :
        org \in {<<"A">>, <<"A", "_", "1">>, Unknown, NaN},
        id \in {<<"1">>, <<"1", "_", "1">>},
        tc \in {<<<<"t">>, <<"1", ",", "0">>>>, <<NaN, <<"1", ",", "0">>>>,
                <<<<"t">>, NA>>, <<<<"t">>, NaN>>, <<<<"t">>, <<"1">>>>}}
StickerRowsLink ==
    {StickerRow(id, lc[1], lc[2]) :
        id \in {<<"1">>, NaN},
        lc \in {<<<<"A">>, <<"1", ",", "1">>>>,
                <<<<"B">>, <<"0", ",", "1">>>>,
                <<<<"B">>, <<"1">>>>}}
GeneralRowsLink ==
    {GeneralRow(otc[1], id, otc[2], otc[3]) :
        id \in {<<"1">>, <<"2">>, NaN},
        otc \in {<<<<"A">>, <<"t">>, <<"1", ",", "0">>>>,
                 <<<<"B">>, <<"u">>, <<"0", ",", "0">>>>}}

OneStickerRow == <<StickerRow(<<"1">>, <<"A">>, <<"1", ",", "1">>)>>
OneGeneralRow == <<GeneralRow(<<"A">>, <<"1">>, <<"t">>, <<"1", ",", "0">>)>>

\* started on given tables with every library but contextily in place
StartNetwork(sticker_rows, general_rows) ==
    /\ pc = "simple_load"
    /\ sticker_xlsx = Table(StickerCols, sticker_rows)
    /\ general_xlsx = Table(GeneralCols, general_rows)
    /\ env = EnvOk("network", FALSE)
    /\ coord_str = NaN
    /\ Fresh

InitNetwork ==
    \/ \E st \in SeqsUpTo(StickerRowsRich, MaxStickerRows) :
           StartNetwork(st, OneGeneralRow)
    \/ \E st \in SeqsUpTo(StickerRowsLink, MaxLinkRows) :
           \E g \in SeqsUpTo(GeneralRowsLink, MaxLinkRows) :
               StartNetwork(st, g)

InitOrgs ==
    \E g \in SeqsUpTo(GeneralRowsRich, MaxOrgRows) :
        StartNetwork(OneStickerRow, g)

SpecNetwork == InitNetwork /\ [][NextNetwork]_vars
SpecOrgs == InitOrgs /\ [][NextNetwork]_vars

\* ---- visual.py inputs: general tables whose topic column is varied over
\* ---- clean labels, whose cells are varied over raw values, or that hold
\* ---- more than ten organizations
TopicRows ==
    {GeneralRow(<<"A">>, <<"1">>, t, <<"1", ",", "0">>) :
        t \in {<<"x">>, <<"y">>, <<"O", "t", "h", "e", "r">>}}
RawRows ==
    {GeneralRow(o, <<"1">>, t, <<"1", ",", "0">>) :
        o \in {<<"A">>, <<" ", "A">>, NaN, NA},
        t \in {<<"x">>, <<" ", "x">>, NaN, NA, <<" ", "N", "/", "A">>,
                <<" ">>}}
NineOrgs ==
    [i \in 1..9 |->
        GeneralRow(<<<<"a">>, <<"b">>, <<"c">>, <<"d">>, <<"e">>, <<"f">>,
                     <<"g">>, <<"h">>, <<"i">>>>[i],
                   <<"1">>, <<"x">>, <<"1", ",", "0">>)]
TailRows ==
    {GeneralRow(o, <<"1">>, t, <<"1", ",", "0">>) :
        o \in {<<"a">>, <<"j">>, <<"k">>}, t \in {<<"x">>, <<"y">>}}

VisualTables ==
    SeqsUpTo(TopicRows, MaxTopicRows)
    \cup SeqsUpTo(RawRows, MaxRawRows)
    \cup {NineOrgs \o tail : tail \in SeqsUpTo(TailRows, MaxTailRows)}

InitVisual ==
    /\ pc = "topics"
    /\ \E rows \in VisualTables : general_xlsx = Table(GeneralCols, rows)
    /\ sticker_xlsx = NoFile
    /\ env = EnvOk("visual", FALSE)
    /\ coord_str = NaN
    /\ Fresh

SpecVisual == InitVisual /\ [][NextVisual]_vars

\* ---- whole runs of either script: a table may be absent, lack one
\* ---- column or hold no row; a library may be absent; a rendering call
\* ---- may raise
TablesOver(cols, rows) ==
    {NoFile} \cup {Table(c, r) : c \in {cols} \cup {cols \ {x} : x \in cols},
                                 r \in {<<>>, rows}}

InitRun ==
    /\ \/ /\ pc = "simple_load"
          /\ sticker_xlsx \in TablesOver(StickerCols, OneStickerRow)
          /\ general_xlsx \in TablesOver(GeneralCols, OneGeneralRow)
          /\ \E c, f \in BOOLEAN :
                 \E r \in SUBSET {"static_map", "interactive_map"} :
                     env = [script |-> "network", contextily |-> c,
                            folium |-> f, wordcloud |-> TRUE, raises |-> r]
       \/ /\ pc = "topics"
          /\ sticker_xlsx = NoFile
          /\ general_xlsx \in TablesOver(GeneralCols, OneGeneralRow)
          /\ \E w \in BOOLEAN :
                 \E r \in SUBSET {"bar", "pie", "wordcloud", "heatmap"} :
                     env = [script |-> "visual", contextily |-> FALSE,
                            folium |-> FALSE, wordcloud |-> w, raises |-> r]
    /\ coord_str = NaN
    /\ Fresh

NextRun == NextNetwork \/ NextVisual

SpecRun == InitRun /\ [][NextRun]_vars

----------------------------------------------------------------------------
(* Claims about extract_coordinates.                                       *)

\* the positions of the commas of the argument
Commas == {i \in 1..Len(coord_str) : coord_str[i] = ","}
FirstComma == CHOOSE i \in Commas : \A j \in Commas : i <= j
\* the text before the first comma, and the text after it up to the second
\* comma or the end
FirstPart == SubSeq(coord_str, 1, FirstComma - 1)
SecondPart ==
    LET later == {i \in Commas : i > FirstComma}
        stop == IF later = {} THEN Len(coord_str) + 1
                ELSE CHOOSE i \in later : \A j \in later : i <= j
    IN  SubSeq(coord_str, FirstComma + 1, stop - 1)

\* the cases in which C5 says there is no coordinate
NoCoordinateCase ==
    \/ coord_str \in {NaN, NumCell}
    \/ coord_str = NA
    \/ Commas = {}
    \/ PyFloat(FirstPart) = ValueError
    \/ PyFloat(SecondPart) = ValueError

\* what C5 says of the return value, for the float kinds allowed
CoordinateResult(kinds) ==
    pc = "coord_done" =>
        /\ \/ coord_out = NoCoord
           \/ coord_out[1].k \in kinds /\ coord_out[2].k \in kinds
        /\ NoCoordinateCase => coord_out = NoCoord
        /\ ~NoCoordinateCase
               => coord_out = <<PyFloat(FirstPart), PyFloat(SecondPart)>>

\* C5 as stated: extract_coordinates returns (None, None) or a pair of
\* finite numbers; (None, None) for a non-string, "N/A", a text without a
\* comma or with a first or second part that is no number; otherwise the
\* pair parsed from the first two parts
C5_TotalFinite == CoordinateResult({"fin"})

\* C5, the part that holds: the same with nan and +-inf among the numbers
C5_TotalAnyFloat == CoordinateResult({"fin", "nan", "inf"})

----------------------------------------------------------------------------
(* Claims about network.py.                                                *)

StickerRowsIn == sticker_xlsx.rows
GeneralRowsIn == general_xlsx.rows

\* the sticker row i and the organization record j that the link resolver
\* pairs: both carry the same identifier (an empty cell is no identifier)
\* and the row's location name is a key of the location mapping
Linked(i, j) ==
    /\ StickerRowsIn[i].sticker_ID /= NaN
    /\ StickerRowsIn[i].sticker_ID = org_points[j][2].sticker_id
    /\ \E k \in 1..Len(sticker_points) :
           sticker_points[k][1] = StickerRowsIn[i].sticker_location
LinkedPairs ==
    {p \in (1..Len(StickerRowsIn)) \X (1..Len(org_points)) : Linked(p[1], p[2])}
\* the place of a pair when the pairs are listed by sticker row, then by
\* organization record
LinkRank(p) ==
    Cardinality({q \in LinkedPairs :
                    q[1] < p[1] \/ (q[1] = p[1] /\ q[2] <= p[2])})

\* C1: the connections are exactly the linked (sticker row, organization
\* record) pairs, one each, ordered by sticker row and then by organization
\* record, and each carries the mapping's coordinate of the row's location,
\* the organization's coordinate and the organization's topic
C1_LinkResolver ==
    "connections" \in computed =>
        /\ Len(connections) = Cardinality(LinkedPairs)
        /\ \A p \in LinkedPairs :
               LET c == connections[LinkRank(p)]
                   loc == StickerRowsIn[p[1]].sticker_location
                   o == org_points[p[2]]
               IN  /\ c.sticker_loc = loc
                   /\ \E k \in 1..Len(sticker_points) :
                          /\ sticker_points[k][1] = loc
                          /\ sticker_points[k][2] = c.sticker_coords
                   /\ c.org_key = o[1]
                   /\ c.org_coords = o[2].coords
                   /\ c.topic = o[2].topic

\* a run where one sticker row is linked to two organization records with
\* different topics and a later row, at another location, to the first of
\* the two
C1_Witness ==
    /\ "connections" \in computed
    /\ Len(connections) >= 3
    /\ \E p, q, r \in LinkedPairs :
           /\ p[1] = q[1] /\ p[2] < q[2] /\ r[1] > p[1] /\ r[2] < q[2]
           /\ org_points[p[2]][2].topic /= org_points[q[2]][2].topic
           /\ StickerRowsIn[p[1]].sticker_location
                  /= StickerRowsIn[r[1]].sticker_location

\* the sticker rows that have a resolved location and at least one
\* matching organization record
QualifyingRows ==
    {i \in 1..Len(StickerRowsIn) : \E j \in 1..Len(org_points) : Linked(i, j)}
MatchesOf(i) == Cardinality({j \in 1..Len(org_points) : Linked(i, j)})
RECURSIVE SumMatches(_)
SumMatches(n) == IF n = 0 THEN 0 ELSE SumMatches(n - 1) + MatchesOf(n)

\* C2 as stated: the number of connections equals the number of sticker
\* rows that have a matching organization record and a resolved location
C2_CountAsStated ==
    "connections" \in computed =>
        Len(connections) = Cardinality(QualifyingRows)

\* C2 amended: the number of connections is the sum over the sticker rows
\* of the number of organization records linked to the row; it is at least
\* the number of qualifying rows and exceeds it exactly when some row is
\* linked to more than one organization record
C2_CountAmended ==
    "connections" \in computed =>
        /\ Len(connections) = SumMatches(Len(StickerRowsIn))
        /\ Len(connections) >= Cardinality(QualifyingRows)
        /\ (Len(connections) > Cardinality(QualifyingRows))
               <=> (\E i \in QualifyingRows : MatchesOf(i) >= 2)

\* a run with more connections than qualifying sticker rows
C2_Witness ==
    /\ "connections" \in computed
    /\ Cardinality(QualifyingRows) >= 2
    /\ Len(connections) > Cardinality(QualifyingRows)

\* the first row of the sticker table bearing a location name
FirstRowOf(name) ==
    CHOOSE i \in 1..Len(StickerRowsIn) :
        /\ StickerRowsIn[i].sticker_location = name
        /\ \A j \in 1..(i - 1) : StickerRowsIn[j].sticker_location /= name
\* the coordinate cell of row i is present and parses
Resolves(i) ==
    LET c == StickerRowsIn[i].sticker_location_coordinates
    IN  c /= NaN /\ None \notin Range(extract_coordinates(c))
Names == {StickerRowsIn[i].sticker_location : i \in 1..Len(StickerRowsIn)} \ {NaN}

\* what C3 says of one mapping
FirstRowMapping(points) ==
    /\ \A i, j \in 1..Len(points) : points[i][1] = points[j][1] => i = j
    /\ \A i \in 1..Len(points) :
           /\ points[i][1] \in Names
           /\ points[i][2] = extract_coordinates(
                  StickerRowsIn[FirstRowOf(points[i][1])]
                      .sticker_location_coordinates)
    /\ \A name \in Names :
           Resolves(FirstRowOf(name)) <=> name \in Range(DictKeys(points))
    /\ \A i, j \in 1..Len(points) :
           i < j => FirstRowOf(points[i][1]) < FirstRowOf(points[j][1])

\* C3: unique_points and sticker_points hold at most one entry per location
\* name, the parsed coordinate of the first row bearing the name; a name
\* whose first row has no parseable coordinate is absent whatever later
\* rows hold; the entries are in order of first appearance
C3_FirstRowWins ==
    /\ "unique_points" \in computed => FirstRowMapping(unique_points)
    /\ "sticker_points" \in computed => FirstRowMapping(sticker_points)

\* a run where a name is absent because its first row does not resolve
\* although a later row of the name does, and two other entries are kept
C3_Witness ==
    /\ "sticker_points" \in computed
    /\ \E i, j \in 1..Len(StickerRowsIn) :
           /\ i < j
           /\ StickerRowsIn[i].sticker_location = StickerRowsIn[j].sticker_location
           /\ StickerRowsIn[i].sticker_location \in Names
           /\ i = FirstRowOf(StickerRowsIn[i].sticker_location)
           /\ ~Resolves(i) /\ Resolves(j)
           /\ StickerRowsIn[i].sticker_location
                  \notin Range(DictKeys(sticker_points))
    /\ Len(sticker_points) >= 1

\* the general rows that pass the coordinate guards
ValidOrgRows == {i \in 1..Len(GeneralRowsIn) : OrgRowValid(GeneralRowsIn[i])}

\* C4 as stated: one organization record per general row whose coordinate
\* is present, not "N/A" and parses; rows that differ in organization name
\* or linking identifier give distinct records; a missing name or topic
\* becomes "Unknown"
C4_OneRecordPerRow ==
    "org_points" \in computed =>
        /\ Len(org_points) = Cardinality(ValidOrgRows)
        /\ \A i \in ValidOrgRows :
               \E k \in 1..Len(org_points) :
                   /\ org_points[k][2].sticker_id = GeneralRowsIn[i].sticker_id
                   /\ org_points[k][2].org_name =
                          (IF GeneralRowsIn[i].organization = NaN THEN Unknown
                           ELSE GeneralRowsIn[i].organization)
                   /\ GeneralRowsIn[i].topic = NaN
                          => org_points[k][2].topic = Unknown
        /\ \A i, j \in ValidOrgRows :
               \/ /\ GeneralRowsIn[i].organization = GeneralRowsIn[j].organization
                  /\ GeneralRowsIn[i].sticker_id = GeneralRowsIn[j].sticker_id
               \/ OrgKey(OrgRecord(GeneralRowsIn[i], NoCoord).org_name,
                         GeneralRowsIn[i].sticker_id)
                      /= OrgKey(OrgRecord(GeneralRowsIn[j], NoCoord).org_name,
                                GeneralRowsIn[j].sticker_id)

\* C4, the part that holds: one organization record per distinct key
\* f"{org_name}_{sticker_id}" among the valid rows, holding the last such
\* row's data at the place of the first
C4_OneRecordPerKey ==
    "org_points" \in computed =>
        LET KeyOf(i) == OrgKey(OrgRecord(GeneralRowsIn[i], NoCoord).org_name,
                               GeneralRowsIn[i].sticker_id)
        IN  /\ Len(org_points) = Cardinality({KeyOf(i) : i \in ValidOrgRows})
            /\ \A i \in ValidOrgRows :
                   (\A j \in ValidOrgRows : KeyOf(j) = KeyOf(i) => j <= i)
                       => \E k \in 1..Len(org_points) :
                              /\ org_points[k][1] = KeyOf(i)
                              /\ org_points[k][2].topic =
                                     (IF GeneralRowsIn[i].topic = NaN
                                      THEN Unknown ELSE GeneralRowsIn[i].topic)

\* two valid rows with different organization names under one key
C4_KeyCollision ==
    /\ "org_points" \in computed
    /\ \E i, j \in ValidOrgRows :
           /\ GeneralRowsIn[i].organization /= GeneralRowsIn[j].organization
           /\ GeneralRowsIn[i].organization /= NaN
           /\ GeneralRowsIn[j].organization /= NaN
           /\ Len(org_points) = 1

----------------------------------------------------------------------------
(* Claims about visual.py.                                                 *)

\* the cleaned topic labels and (organization, topic) pairs of the input
Cleaned == CleanTopics(GeneralRowsIn)
Pairs == CleanPairs(GeneralRowsIn)
FirstSeen(seq, x) == CHOOSE i \in 1..Len(seq) :
                         seq[i] = x /\ \A j \in 1..(i - 1) : seq[j] /= x

\* one row per distinct label with its number of occurrences, by count
\* descending
CountedDescending ==
    /\ \A i, j \in 1..Len(topic_df) :
           topic_df[i].Topic = topic_df[j].Topic => i = j
    /\ {topic_df[i].Topic : i \in 1..Len(topic_df)} = Range(Cleaned)
    /\ \A i \in 1..Len(topic_df) :
           topic_df[i].Count = Occurrences(Cleaned, topic_df[i].Topic)
    /\ \A i \in 1..(Len(topic_df) - 1) :
           topic_df[i].Count >= topic_df[i + 1].Count

\* C6 as stated: topic_df has one row per distinct label with its count,
\* by count descending, and rows of equal count are in the order of the
\* labels' first appearance in the cleaned input
C6_StableDescending ==
    "topic_df" \in computed =>
        /\ CountedDescending
        /\ \A i, j \in 1..Len(topic_df) :
               (i < j /\ topic_df[i].Count = topic_df[j].Count)
                   => FirstSeen(Cleaned, topic_df[i].Topic)
                          < FirstSeen(Cleaned, topic_df[j].Topic)

\* C6, the part that holds whatever the sort does with ties
C6_Descending == "topic_df" \in computed => CountedDescending

\* the rows of topic_df kept as they are, and those grouped
HighRows == {i \in 1..Len(topic_df) : topic_df[i].Count >= 3}
LowRows == {i \in 1..Len(topic_df) : topic_df[i].Count < 3}
RECURSIVE TotalOf(_, _)
TotalOf(frame, n) ==
    IF n = 0 THEN 0 ELSE TotalOf(frame, n - 1) + frame[n].Count

\* what C7 says of the rows handed to plt.pie
PieInput ==
    "pie" \in attempted =>
        /\ Len(pie_df) = Cardinality(HighRows)
                             + (IF LowRows = {} THEN 0 ELSE 1)
        /\ \A i \in HighRows :
               pie_df[Cardinality({j \in HighRows : j <= i})] = topic_df[i]
        /\ LowRows /= {} =>
               /\ pie_df[Len(pie_df)].Topic = <<"O", "t", "h", "e", "r">>
               /\ pie_df[Len(pie_df)].Count + TotalOf(pie_df, Len(pie_df) - 1)
                      = TotalOf(topic_df, Len(topic_df))
        /\ TotalOf(pie_df, Len(pie_df)) = TotalOf(topic_df, Len(topic_df))

\* C7: the pie input is the rows of count >= 3 in their order, followed by
\* one "Other" row summing the counts < 3 exactly when there is such a
\* count; the totals agree; create_pie_chart leaves topic_df as it was
C7_OtherBucket ==
    /\ []PieInput
    /\ [][pc = "pie" => topic_df' = topic_df]_vars

\* a pie input like the one of counts 5, 2, 1: a kept row, then "Other"
\* for two grouped rows
C7_Witness ==
    /\ "pie" \in attempted
    /\ Cardinality(LowRows) = 2
    /\ Len(pie_df) = 2
    /\ pie_df[1].Count = 5
    /\ pie_df[2] = [Topic |-> <<"O", "t", "h", "e", "r">>, Count |-> 3]

\* the organizations in count order, ties by first appearance: a comes
\* before b
Before(a, b) ==
    LET names == [i \in 1..Len(Pairs) |-> Pairs[i].organization]
    IN  \/ Occurrences(names, a) > Occurrences(names, b)
        \/ /\ Occurrences(names, a) = Occurrences(names, b)
           /\ FirstSeen(names, a) < FirstSeen(names, b)
Organizations == {Pairs[i].organization : i \in 1..Len(Pairs)}
FirstSeenTop ==
    {a \in Organizations :
        Cardinality({b \in Organizations : Before(b, a)}) < 10}

\* what C8 says of the matrix once its rows are the set top
MatrixOf(top) ==
    LET selected == {i \in 1..Len(Pairs) : Pairs[i].organization \in top}
    IN  /\ Range(pivot_table.index) = top
        /\ Range(pivot_table.columns) = {Pairs[i].topic : i \in selected}
        /\ DOMAIN pivot_table.values
               = Range(pivot_table.index) \X Range(pivot_table.columns)
        /\ \A c \in DOMAIN pivot_table.values :
               pivot_table.values[c]
                   = Cardinality({i \in selected :
                                     /\ Pairs[i].organization = c[1]
                                     /\ Pairs[i].topic = c[2]})

\* C8 as stated: the matrix rows are the top 10 organizations by pair
\* count, ties broken by first appearance; the columns are the topics of
\* their pairs; each cell is the pair's number of occurrences, 0 if none
C8_TopTenFirstSeen ==
    "pivot_table" \in computed => MatrixOf(FirstSeenTop)

\* C8, the part that holds: the rows are min(10, n) organizations none of
\* which has fewer pairs than an organization left out
C8_TopTenAnyTie ==
    "pivot_table" \in computed =>
        /\ MatrixOf(top_orgs)
        /\ Cardinality(top_orgs) = Cardinality(FirstSeenTop)
        /\ \A a \in top_orgs : \A b \in Organizations \ top_orgs :
               ~Before(b, a) \/ Occurrences(
                   [i \in 1..Len(Pairs) |-> Pairs[i].organization], a)
                   = Occurrences(
                   [i \in 1..Len(Pairs) |-> Pairs[i].organization], b)

----------------------------------------------------------------------------
(* Claims about whole runs.                                                *)

Terminated == pc \in {"done", "aborted"}

\* the rendering steps of the script that runs
StepsOfRun ==
    IF env.script = "network" THEN {"static_map", "interactive_map"}
    ELSE {"bar", "pie", "wordcloud", "heatmap"}

\* the tables and columns the script that runs reads
InputsComplete ==
    IF env.script = "network"
    THEN /\ sticker_xlsx.present /\ StickerCols \subseteq sticker_xlsx.cols
         /\ general_xlsx.present /\ GeneralCols \subseteq general_xlsx.cols
    ELSE /\ general_xlsx.present
         /\ {"organization", "topic"} \subseteq general_xlsx.cols

\* C9 as stated: with its inputs in place, a run is never aborted by a
\* rendering step that fails: it ends normally with every rendering step of
\* the script attempted
C9_RenderFailureIsolated ==
    (InputsComplete /\ Terminated) =>
        pc = "done" /\ attempted = StepsOfRun

\* C9, the part that holds: a missing optional library alone (contextily,
\* folium, wordcloud) is reported and aborts nothing, when the tables hold a
\* row and no rendering call raises
C9_MissingLibraryIsolated ==
    (/\ InputsComplete /\ Terminated /\ env.raises = {}
     /\ general_xlsx.rows /= <<>>
     /\ env.script = "network" => sticker_xlsx.rows /= <<>>) =>
        /\ pc = "done" /\ attempted = StepsOfRun
        /\ (env.script = "network" /\ ~env.contextily)
               => "Contextily package not installed" \in messages
        /\ (env.script = "network" /\ ~env.folium)
               => "Error creating interactive map" \in messages
        /\ (env.script = "visual" /\ ~env.wordcloud)
               => "WordCloud package not installed" \in messages

\* C10 as stated: when a required table or column is missing, the run
\* aborts before any aggregation: nothing is aggregated, no output file is
\* written, and the run does not end normally
C10_FatalBeforeAggregation ==
    ~InputsComplete => computed = {} /\ outputs = {} /\ pc /= "done"

----------------------------------------------------------------------------
(* Claims about the cleaning of the topic column in visual.py.             *)

\* the labels that stand for no topic, and the topic cells that read as one
NullStrings == {<<"n", "a", "n">>, <<"N", "o", "n", "e">>, <<>>}
ForbiddenLabels == {NA} \cup NullStrings
Trimmed(s) == Strip(s) = s
Unusable(cell) == cell = NaN \/ Strip(PyStr(cell)) \in ForbiddenLabels
TopicCells == {GeneralRowsIn[i].topic : i \in 1..Len(GeneralRowsIn)}

\* whether a topic cell is dropped before counting by
\* analyze_topic_frequencies, and by analyze_organization_topics in a row
\* whose organization is usable
FrequenciesExcludes(cell) == CleanTopics(<<[topic |-> cell]>>) = <<>>
OrgTopicsExcludes(cell) ==
    CleanPairs(<<[organization |-> <<"A">>, topic |-> cell]>>) = <<>>

\* C11 as stated: once analyze_topic_frequencies (resp.
\* analyze_organization_topics) has run, every row label of topic_df (resp.
\* column label of the matrix) is trimmed and is none of "N/A", "nan",
\* "None", ""; every topic cell that is missing, that is "N/A" up to
\* surrounding whitespace or that is a null string was dropped by the
\* function; and the two functions drop the same topic cells
C11_TopicCleaning ==
    /\ "topic_df" \in computed =>
           /\ \A i \in 1..Len(topic_df) :
                  /\ Trimmed(topic_df[i].Topic)
                  /\ topic_df[i].Topic \notin ForbiddenLabels
           /\ \A c \in TopicCells : Unusable(c) => FrequenciesExcludes(c)
    /\ "pivot_table" \in computed =>
           /\ \A i \in 1..Len(pivot_table.columns) :
                  /\ Trimmed(pivot_table.columns[i])
                  /\ pivot_table.columns[i] \notin ForbiddenLabels
           /\ \A c \in TopicCells : Unusable(c) => OrgTopicsExcludes(c)
           /\ \A c \in TopicCells :
                  FrequenciesExcludes(c) <=> OrgTopicsExcludes(c)

\* what the code does guarantee: labels are trimmed; topic_df has no row
\* "N/A" or "nan" and counts no cell that is missing or reads "N/A" or
\* "nan" once trimmed; the matrix counts no cell that is missing or exactly
\* "N/A"; whatever the matrix drops, topic_df drops too
C11_TrimmedLabels ==
    /\ "topic_df" \in computed =>
           /\ \A i \in 1..Len(topic_df) :
                  /\ Trimmed(topic_df[i].Topic)
                  /\ topic_df[i].Topic \notin {NA, <<"n", "a", "n">>}
           /\ \A c \in TopicCells :
                  (c = NaN \/ Strip(PyStr(c)) \in {NA, <<"n", "a", "n">>})
                      => FrequenciesExcludes(c)
    /\ "pivot_table" \in computed =>
           /\ \A i \in 1..Len(pivot_table.columns) :
                  Trimmed(pivot_table.columns[i])
           /\ \A c \in TopicCells :
                  (c = NaN \/ c = NA) => OrgTopicsExcludes(c)
           /\ \A c \in TopicCells :
                  OrgTopicsExcludes(c) => FrequenciesExcludes(c)

====
